---- MODULE Spec2Model ----
(***************************************************************************)
(* A model of stonkwise's poetry_scripts.py: the developer-workflow        *)
(* commands run_format, run_lint, run_verify (external tool invocations    *)
(* with a fail-fast or best-effort exit-code policy), the argument parser  *)
(* of run_example, and the filesystem clean-up of run_clean.               *)
(*                                                                         *)
(* Strings the code inspects character by character (argument tokens,      *)
(* file names) are sequences of one-character strings, so that             *)
(* str.startswith, str.endswith and str.split are computed, not assumed.   *)
(***************************************************************************)
EXTENDS Naturals, Sequences, FiniteSets, TLC

VARIABLES
    cmd,            \* the command the caller selected ("none" before the call)
    stack,          \* call stack of frames [fn, pc]; pc is the frame's next step
    calls,          \* external invocations launched so far: [argv, code]
    outcome,        \* "idle", "running", "returned" or "raised"
    args,           \* run_example's args parameter: None or a list of tokens
    idx,            \* run_example: number of tokens the for loop has consumed
    ticker, period, strategy,  \* run_example's three locals
    fs,             \* the tree under the working directory: a set of [path, kind]
    run,            \* run_clean: "none", "first" or "second" run
    dirs_to_remove, \* run_clean's removal list
    pending,        \* os.walk: the directories still to be listed, next first
    vanished,       \* os.walk: directories whose listing failed and was skipped
    reported,       \* paths of the "Removed ..." lines printed by this run
    fsInit,         \* history: the tree before the first run
    fsMid           \* history: the tree when the second run started

exampleVars == <<args, idx, ticker, period, strategy>>
cleanVars == <<fs, run, dirs_to_remove, pending, vanished, reported, fsInit, fsMid>>
vars == <<cmd, stack, calls, outcome, args, idx, ticker, period, strategy,
          fs, run, dirs_to_remove, pending, vanished, reported, fsInit, fsMid>>

(***************************************************************************)
(* Bounds.                                                                 *)
(***************************************************************************)
\* External tools exit with a code in 0..MaxExit.
MaxExit == 3

ExitCodes == 0..MaxExit

\* An Optional[List[str]] parameter: None, or a list of tokens.
NoArgs == [isNone |-> TRUE, items |-> <<>>]
ArgList(items) == [isNone |-> FALSE, items |-> items]

(***************************************************************************)
(* subprocess.run(argv, check=...): the child is launched and waited for;  *)
(* with check=True a non-zero exit code raises CalledProcessError.         *)
(***************************************************************************)
SubprocessRaises(check, code) == check /\ code # 0

\* The argument lists of the external invocations.
AutoflakeCmd == <<"autoflake", "--recursive", "--remove-all-unused-imports",
                  "--remove-unused-variables", "--in-place", "stonkwise", "tests">>
BlackCmd == <<"black", "stonkwise", "tests">>
IsortCmd == <<"isort", "stonkwise", "tests">>
Flake8Cmd == <<"flake8", "stonkwise", "tests">>
MypyCmd == <<"mypy", "stonkwise">>
BuildCmd == <<"poetry", "build">>

\* The check= keyword of each subprocess.run call.
\* Variant: a format step run without check (sensitivity of C1).
FormatCheckDropped == FALSE
AutoflakeCheck == TRUE
BlackCheck == TRUE
IsortCheck == TRUE
\* Variant: a lint step run with check (sensitivity of C2 and C3).
LintCheckRaised == TRUE
Flake8Check == FALSE
MypyCheck == FALSE
BuildCheck == FALSE

(***************************************************************************)
(* Control: the frame on top of the stack is the running function.         *)
(***************************************************************************)
At(fn, label) ==
    /\ outcome = "running"
    /\ Len(stack) > 0
    /\ stack[Len(stack)] = [fn |-> fn, pc |-> label]

Goto(label) == [stack EXCEPT ![Len(stack)].pc = label]

\* One subprocess.run call of the running function; next is the label of the
\* statement after it, or "return" when the function ends there.  An
\* exception is caught nowhere: it unwinds every frame.
Invoke(argv, check, code, next) ==
    /\ calls' = Append(calls, [argv |-> argv, code |-> code])
    /\ IF SubprocessRaises(check, code)
       THEN /\ stack' = <<>>
            /\ outcome' = "raised"
       ELSE IF next = "return"
       THEN /\ stack' = SubSeq(stack, 1, Len(stack) - 1)
            /\ outcome' = IF Len(stack) = 1 THEN "returned" ELSE outcome
       ELSE /\ stack' = Goto(next)
            /\ UNCHANGED outcome
    /\ UNCHANGED cmd

\* The caller selects a command of the dispatcher.
Start(fn, label) ==
    /\ outcome = "idle"
    /\ cmd' = fn
    /\ stack' = <<[fn |-> fn, pc |-> label]>>
    /\ outcome' = "running"
    /\ UNCHANGED calls

(***************************************************************************)
(* run_format                                                              *)
(***************************************************************************)
StartFormat == Start("run_format", "autoflake") /\ UNCHANGED <<exampleVars, cleanVars>>

FormatAutoflake ==
    /\ At("run_format", "autoflake")
    /\ \E code \in ExitCodes : Invoke(AutoflakeCmd, AutoflakeCheck, code, "black")
    /\ UNCHANGED <<exampleVars, cleanVars>>

FormatBlack ==
    /\ At("run_format", "black")
    /\ \E code \in ExitCodes : Invoke(BlackCmd, BlackCheck, code, "isort")
    /\ UNCHANGED <<exampleVars, cleanVars>>

FormatIsort ==
    /\ At("run_format", "isort")
    /\ \E code \in ExitCodes : Invoke(IsortCmd, IsortCheck, code, "return")
    /\ UNCHANGED <<exampleVars, cleanVars>>

(***************************************************************************)
(* run_lint                                                                *)
(***************************************************************************)
StartLint == Start("run_lint", "flake8") /\ UNCHANGED <<exampleVars, cleanVars>>

LintFlake8 ==
    /\ At("run_lint", "flake8")
    /\ \E code \in ExitCodes : Invoke(Flake8Cmd, Flake8Check, code, "mypy")
    /\ UNCHANGED <<exampleVars, cleanVars>>

LintMypy ==
    /\ At("run_lint", "mypy")
    /\ \E code \in ExitCodes : Invoke(MypyCmd, MypyCheck, code, "return")
    /\ UNCHANGED <<exampleVars, cleanVars>>

(***************************************************************************)
(* run_verify: run_format(args), run_lint(args), then poetry build.        *)
(***************************************************************************)
StartVerify == Start("run_verify", "format") /\ UNCHANGED <<exampleVars, cleanVars>>

\* A call pushes the callee's frame; the caller's pc already names the
\* statement after the call.
Call(after, fn, label) ==
    /\ stack' = Append(Goto(after), [fn |-> fn, pc |-> label])
    /\ UNCHANGED <<cmd, calls, outcome>>

VerifyCallFormat ==
    /\ At("run_verify", "format")
    /\ Call("lint", "run_format", "autoflake")
    /\ UNCHANGED <<exampleVars, cleanVars>>

VerifyCallLint ==
    /\ At("run_verify", "lint")
    /\ Call("build", "run_lint", "flake8")
    /\ UNCHANGED <<exampleVars, cleanVars>>

VerifyBuild ==
    /\ At("run_verify", "build")
    /\ \E code \in ExitCodes : Invoke(BuildCmd, BuildCheck, code, "return")
    /\ UNCHANGED <<exampleVars, cleanVars>>

(***************************************************************************)
(* The dispatcher's specification: one command per behaviour.              *)
(***************************************************************************)
\* Nothing has been called yet; tree is what the working directory holds.
Idle(tree) ==
    /\ cmd = "none"
    /\ stack = <<>>
    /\ calls = <<>>
    /\ outcome = "idle"
    /\ args = NoArgs
    /\ idx = 0
    /\ ticker = <<>>
    /\ period = <<>>
    /\ strategy = <<>>
    /\ run = "none"
    /\ dirs_to_remove = <<>>
    /\ pending = <<>>
    /\ vanished = {}
    /\ reported = {}
    /\ fs = tree
    /\ fsInit = tree
    /\ fsMid = tree

InitDispatch == Idle({})

NextDispatch ==
    \/ StartFormat
    \/ FormatAutoflake
    \/ FormatBlack
    \/ FormatIsort
    \/ StartLint
    \/ LintFlake8
    \/ LintMypy
    \/ StartVerify
    \/ VerifyCallFormat
    \/ VerifyCallLint
    \/ VerifyBuild

SpecDispatch == InitDispatch /\ [][NextDispatch]_vars

(***************************************************************************)
(* Properties of the dispatcher.                                           *)
(***************************************************************************)
FormatSeq == <<AutoflakeCmd, BlackCmd, IsortCmd>>
VerifySeq == <<AutoflakeCmd, BlackCmd, IsortCmd, Flake8Cmd, MypyCmd, BuildCmd>>
LintSeq == <<Flake8Cmd, MypyCmd>>

Min(a, b) == IF a <= b THEN a ELSE b

\* The argument lists launched so far are the first Len(calls) of expected.
LaunchedInOrder(expected) ==
    /\ Len(calls) <= Len(expected)
    /\ \A k \in 1..Len(calls) : calls[k].argv = expected[k]

Finished == outcome \in {"returned", "raised"}

\* C1: run_format launches autoflake, black, isort in that order, and a
\* non-zero exit of any of them raises at once: the failing invocation is the
\* last one ever launched and nothing of the command is left running.  The
\* same holds of the format phase of run_verify.
C1_FormatFailFast ==
    cmd \in {"run_format", "run_verify"} =>
        /\ \A k \in 1..Min(Len(calls), 3) :
              /\ calls[k].argv = FormatSeq[k]
              /\ calls[k].code # 0 =>
                    /\ k = Len(calls)
                    /\ outcome = "raised"
                    /\ stack = <<>>
        /\ cmd = "run_format" =>
              /\ Len(calls) <= 3
              /\ outcome = "returned" =>
                    /\ Len(calls) = 3
                    /\ \A k \in 1..3 : calls[k].code = 0

\* C1's case: run_format's autoflake exited non-zero and run_format raised
\* with that single invocation launched.
C1_Witness ==
    /\ cmd = "run_format"
    /\ Len(calls) = 1
    /\ calls[1].code # 0
    /\ outcome = "raised"

\* C2: in run_verify, a non-zero exit of a format invocation raises and
\* neither flake8, mypy nor poetry build is ever launched; when the three
\* format invocations exit zero, run_verify never raises and ends having
\* launched flake8, mypy and poetry build once each, in that order, whatever
\* flake8 and mypy returned.
C2_VerifyOrder ==
    cmd = "run_verify" =>
        /\ LaunchedInOrder(VerifySeq)
        /\ (\E k \in 1..Min(Len(calls), 3) : calls[k].code # 0) =>
              /\ outcome = "raised"
              /\ Len(calls) <= 3
        /\ (\A k \in 1..Min(Len(calls), 3) : calls[k].code = 0) =>
              /\ outcome # "raised"
              /\ outcome = "running" => Len(stack) > 0
              /\ outcome = "returned" => Len(calls) = 6

\* C2's case: run_verify returned after flake8 and mypy both exited non-zero
\* and the builder was launched last.
C2_Witness ==
    /\ cmd = "run_verify"
    /\ outcome = "returned"
    /\ Len(calls) = 6
    /\ calls[4].code # 0
    /\ calls[5].code # 0
    /\ calls[6].argv = BuildCmd

\* C3: run_lint launches flake8 and then mypy, once each, for every exit code
\* of flake8, and returns normally for every pair of exit codes.
C3_LintBestEffort ==
    cmd = "run_lint" =>
        /\ LaunchedInOrder(LintSeq)
        /\ outcome # "raised"
        /\ outcome = "running" => Len(stack) > 0
        /\ (outcome = "running" /\ Len(calls) = 1) => At("run_lint", "mypy")
        /\ outcome = "returned" => Len(calls) = 2

\* C3's case: run_lint returned with both checkers having exited non-zero.
C3_Witness ==
    /\ cmd = "run_lint"
    /\ outcome = "returned"
    /\ Len(calls) = 2
    /\ calls[1].code # 0
    /\ calls[2].code # 0

(***************************************************************************)
(* run_example: the argument parser and the single invocation.             *)
(***************************************************************************)
\* The caller passes at most MaxArgs tokens.
MaxArgs == 3

PrefixTicker == <<"-", "-", "t", "i", "c", "k", "e", "r", "=">>
PrefixPeriod == <<"-", "-", "p", "e", "r", "i", "o", "d", "=">>
PrefixStrategy == <<"-", "-", "s", "t", "r", "a", "t", "e", "g", "y", "=">>

DefaultTicker == <<"M", "S", "F", "T">>
DefaultPeriod == <<"d", "a", "y">>
DefaultStrategy == <<"s", "i", "m", "p", "l", "e">>

\* Variant: a prefix test that ignores the case of the flag's initial
\* (sensitivity of C5).
StartsWithAnyCase(s, prefix) ==
    LET Lower(c) == IF c = "T" THEN "t" ELSE c
    IN  /\ Len(s) >= Len(prefix)
        /\ \A k \in 1..Len(prefix) : Lower(s[k]) = Lower(prefix[k])
\* str.startswith(prefix), case-sensitive.
StartsWith(s, prefix) ==
    /\ Len(s) >= Len(prefix)
    /\ SubSeq(s, 1, Len(prefix)) = prefix

\* str.split(sep) for a one-character separator: the pieces between the
\* occurrences of sep, in order; a string without sep is its only piece.
RECURSIVE Split(_, _)
Split(s, sep) ==
    IF \A k \in 1..Len(s) : s[k] # sep
    THEN <<s>>
    ELSE LET i == CHOOSE k \in 1..Len(s) :
                      /\ s[k] = sep
                      /\ \A j \in 1..(k - 1) : s[j] # sep
         IN  <<SubSeq(s, 1, i - 1)>> \o Split(SubSeq(s, i + 1, Len(s)), sep)

\* arg.split("=")[1]: the second piece (IndexError when there is none).
SplitValue(arg) ==
    LET pieces == Split(arg, "=")
    IN  IF Len(pieces) >= 2
        THEN [error |-> FALSE, value |-> pieces[2]]
        ELSE [error |-> TRUE, value |-> <<>>]

\* Variant: a flag is assigned only while its parameter holds the default
\* (sensitivity of C6).
ParseArgFirstWins(p, arg) ==
    IF StartsWith(arg, PrefixTicker) /\ p.ticker = DefaultTicker
    THEN [p EXCEPT !.ticker = SplitValue(arg).value]
    ELSE IF StartsWith(arg, PrefixPeriod) /\ p.period = DefaultPeriod
    THEN [p EXCEPT !.period = SplitValue(arg).value]
    ELSE IF StartsWith(arg, PrefixStrategy) /\ p.strategy = DefaultStrategy
    THEN [p EXCEPT !.strategy = SplitValue(arg).value]
    ELSE p
\* One iteration of `for arg in args`: the if/elif chain on the locals
\* p = [ticker, period, strategy, error].
ParseArg(p, arg) ==
    IF StartsWith(arg, PrefixTicker)
    THEN [p EXCEPT !.ticker = SplitValue(arg).value,
                   !.error = SplitValue(arg).error]
    ELSE IF StartsWith(arg, PrefixPeriod)
    THEN [p EXCEPT !.period = SplitValue(arg).value,
                   !.error = SplitValue(arg).error]
    ELSE IF StartsWith(arg, PrefixStrategy)
    THEN [p EXCEPT !.strategy = SplitValue(arg).value,
                   !.error = SplitValue(arg).error]
    ELSE p

\* `if args:` is false of None and of the empty list.
Truthy(a) == ~a.isNone /\ Len(a.items) > 0

ExampleCmd(t, p, s) ==
    <<"python", "-m", "stonkwise", "analyze",
      "--ticker", t, "--period", p, "--strategy", s>>

\* The tokens a caller may pass: a head followed by a tail.
TokenHeads ==
    { PrefixTicker, PrefixPeriod, PrefixStrategy,
      <<"-", "-", "t", "i", "c", "k", "e", "r">>,
      <<"-", "-", "T", "i", "c", "k", "e", "r", "=">>,
      <<>> }
TokenTails == { <<>>, <<"A">>, <<"A", "=", "B">> }
Tokens == { h \o t : h \in TokenHeads, t \in TokenTails }

RECURSIVE ListsUpTo(_)
ListsUpTo(n) ==
    IF n = 0
    THEN { <<>> }
    ELSE LET shorter == ListsUpTo(n - 1)
         IN  shorter \cup { Append(l, t) : l \in { x \in shorter : Len(x) = n - 1 },
                                            t \in Tokens }

ArgValues == { NoArgs } \cup { ArgList(l) : l \in ListsUpTo(MaxArgs) }

StartExample ==
    /\ outcome = "idle"
    /\ \E a \in ArgValues : args' = a
    /\ cmd' = "run_example"
    /\ stack' = <<[fn |-> "run_example", pc |-> "parse"]>>
    /\ outcome' = "running"
    /\ ticker' = DefaultTicker
    /\ period' = DefaultPeriod
    /\ strategy' = DefaultStrategy
    /\ idx' = 0
    /\ UNCHANGED calls
    /\ UNCHANGED cleanVars

ExampleParseArg ==
    /\ At("run_example", "parse")
    /\ Truthy(args)
    /\ idx < Len(args.items)
    /\ LET p == ParseArg([ticker |-> ticker, period |-> period,
                          strategy |-> strategy, error |-> FALSE],
                         args.items[idx + 1])
       IN  /\ ticker' = p.ticker
           /\ period' = p.period
           /\ strategy' = p.strategy
           /\ IF p.error
              THEN stack' = <<>> /\ outcome' = "raised"
              ELSE UNCHANGED <<stack, outcome>>
    /\ idx' = idx + 1
    /\ UNCHANGED <<cmd, calls, args>>
    /\ UNCHANGED cleanVars

ExampleInvoke ==
    /\ At("run_example", "parse")
    /\ Truthy(args) => idx = Len(args.items)
    /\ \E code \in ExitCodes :
          Invoke(ExampleCmd(ticker, period, strategy), FALSE, code, "return")
    /\ UNCHANGED <<exampleVars, cleanVars>>

InitExample == Idle({})

NextExample ==
    \/ StartExample
    \/ ExampleParseArg
    \/ ExampleInvoke

SpecExample == InitExample /\ [][NextExample]_vars

(***************************************************************************)
(* Properties of run_example.  What a token is recognized as, and what its *)
(* value is, are stated here on the token's characters, independently of   *)
(* the parser's own StartsWith and Split.                                  *)
(***************************************************************************)
HasPrefix(tok, prefix) ==
    /\ Len(tok) >= Len(prefix)
    /\ \A k \in 1..Len(prefix) : tok[k] = prefix[k]

IsTickerTok(tok) == HasPrefix(tok, PrefixTicker)
IsPeriodTok(tok) == HasPrefix(tok, PrefixPeriod)
IsStrategyTok(tok) == HasPrefix(tok, PrefixStrategy)
Recognized(tok) == IsTickerTok(tok) \/ IsPeriodTok(tok) \/ IsStrategyTok(tok)

\* The position of the first "=" of a recognized token.
FirstEq(tok) ==
    CHOOSE k \in 1..Len(tok) : tok[k] = "=" /\ \A j \in 1..(k - 1) : tok[j] # "="

\* Everything after the first "=".
AfterFirstEq(tok) == SubSeq(tok, FirstEq(tok) + 1, Len(tok))

\* The characters after the first "=" up to the next "=" or the token's end.
FlagValue(tok) ==
    LET rest == AfterFirstEq(tok)
        stops == { k \in 1..Len(rest) : rest[k] = "=" }
    IN  IF stops = {}
        THEN rest
        ELSE SubSeq(rest, 1, (CHOOSE k \in stops : \A j \in stops : k <= j) - 1)

\* The tokens the loop has consumed so far.
Consumed == SubSeq(args.items, 1, idx)

\* C4: the token just consumed, when it starts with --ticker=, --period= or
\* --strategy=, has set its parameter to everything after its first "=",
\* further "=" characters included.
C4_ValueIsEverythingAfterFirstEq ==
    (cmd = "run_example" /\ idx > 0) =>
        LET tok == args.items[idx]
        IN  /\ IsTickerTok(tok) => ticker = AfterFirstEq(tok)
            /\ IsPeriodTok(tok) => period = AfterFirstEq(tok)
            /\ IsStrategyTok(tok) => strategy = AfterFirstEq(tok)

\* The parameters the parser resolves from a token list, by its own loop.
RECURSIVE Resolve(_)
Resolve(items) ==
    IF Len(items) = 0
    THEN [ticker |-> DefaultTicker, period |-> DefaultPeriod,
          strategy |-> DefaultStrategy, error |-> FALSE]
    ELSE ParseArg(Resolve(SubSeq(items, 1, Len(items) - 1)), items[Len(items)])

\* C5: tokens without one of the three prefixes (a flag without "=", a flag
\* in another case, free text) raise nothing and never change the resolved
\* parameters: at every point of the loop the three parameters are those
\* resolved from the consumed tokens with every such token deleted, and the
\* invocation carries those parameters.
C5_UnrecognizedIgnored ==
    cmd = "run_example" =>
        LET kept == Resolve(SelectSeq(Consumed, Recognized))
        IN  /\ outcome # "raised"
            /\ ticker = kept.ticker
            /\ period = kept.period
            /\ strategy = kept.strategy
            /\ \A k \in 1..Len(calls) :
                  calls[k].argv = ExampleCmd(kept.ticker, kept.period, kept.strategy)

\* C5's case: the run ended on a list that holds an unrecognized token after a
\* recognized one and before another recognized one.
C5_Witness ==
    /\ cmd = "run_example"
    /\ outcome = "returned"
    /\ Len(args.items) = 3
    /\ IsTickerTok(args.items[1])
    /\ ~Recognized(args.items[2])
    /\ IsPeriodTok(args.items[3])
    /\ ticker # DefaultTicker
    /\ period # DefaultPeriod

\* The value of the last token of a flag, or the default without one.
LastOr(items, IsFlag(_), default) ==
    LET at == { k \in 1..Len(items) : IsFlag(items[k]) }
    IN  IF at = {}
        THEN default
        ELSE FlagValue(items[CHOOSE k \in at : \A j \in at : j <= k])

\* C6: when run_example ends, each parameter is the value of the last token
\* of its flag (the text between the token's first "=" and its next "=" or
\* end), or its default MSFT, day, simple without such a token; None and the
\* empty list resolve to the defaults; exactly one invocation was launched,
\* with the resolved values.
C6_LastWinsAndDefaults ==
    (cmd = "run_example" /\ Finished) =>
        /\ outcome = "returned"
        /\ ticker = LastOr(args.items, IsTickerTok, DefaultTicker)
        /\ period = LastOr(args.items, IsPeriodTok, DefaultPeriod)
        /\ strategy = LastOr(args.items, IsStrategyTok, DefaultStrategy)
        /\ ~Truthy(args) =>
              /\ ticker = <<"M", "S", "F", "T">>
              /\ period = <<"d", "a", "y">>
              /\ strategy = <<"s", "i", "m", "p", "l", "e">>
        /\ Len(calls) = 1
        /\ calls[1].argv = ExampleCmd(ticker, period, strategy)

\* C6's case: two tokens of the same flag with different values; the later
\* one won and the flags without a token kept their defaults.
C6_Witness ==
    /\ cmd = "run_example"
    /\ outcome = "returned"
    /\ Len(args.items) = 2
    /\ IsTickerTok(args.items[1])
    /\ IsTickerTok(args.items[2])
    /\ FlagValue(args.items[1]) # FlagValue(args.items[2])
    /\ ticker = FlagValue(args.items[2])
    /\ period = DefaultPeriod
    /\ strategy = DefaultStrategy
    /\ Len(calls) = 1

(***************************************************************************)
(* run_clean.  The tree under the working directory is a set of nodes      *)
(* [path, kind]: path is the sequence of names from the working directory, *)
(* kind is "dir" or "file"; every node's parent is a directory of the      *)
(* tree.  Only regular files and directories occur (no links).  A name is  *)
(* kept as one string in the tree; Chars gives its characters, on which    *)
(* the code's string tests are computed.                                   *)
(***************************************************************************)
\* The initial tree holds at most MaxNodes files and directories.
MaxNodes == 3

S_build == <<"b", "u", "i", "l", "d">>
S_dist == <<"d", "i", "s", "t">>
S_pytest_cache == <<".", "p", "y", "t", "e", "s", "t", "_", "c", "a", "c", "h", "e">>
S_mypy_cache == <<".", "m", "y", "p", "y", "_", "c", "a", "c", "h", "e">>
S_htmlcov == <<"h", "t", "m", "l", "c", "o", "v">>
S_coverage == <<".", "c", "o", "v", "e", "r", "a", "g", "e">>
S_pycache == <<"_", "_", "p", "y", "c", "a", "c", "h", "e", "_", "_">>
S_egg_info == <<".", "e", "g", "g", "-", "i", "n", "f", "o">>
S_pyc == <<".", "p", "y", "c">>
Slash == <<"/">>

\* The literal list of run_clean.
FixedPaths ==
    << S_build \o Slash, S_dist \o Slash, S_pytest_cache \o Slash,
       S_mypy_cache \o Slash, S_htmlcov \o Slash, S_coverage >>

\* str.endswith(suffix).
EndsWith(s, suffix) ==
    /\ Len(s) >= Len(suffix)
    /\ SubSeq(s, Len(s) - Len(suffix) + 1, Len(s)) = suffix

\* The names the initial tree draws from, each with its spelling: two of the
\* fixed artifact names, a packaging-metadata name, the cache directory name,
\* a bytecode name and a name no rule matches.  Each may be a file or a
\* directory.
Names == { "build", ".coverage", "a.egg-info", "__pycache__", "m.pyc", "pkg" }
Chars(name) ==
    CASE name = "build" -> S_build
      [] name = ".coverage" -> S_coverage
      [] name = "a.egg-info" -> <<"a">> \o S_egg_info
      [] name = "__pycache__" -> S_pycache
      [] name = "m.pyc" -> <<"m">> \o S_pyc
      [] name = "pkg" -> <<"p", "k", "g">>
Kinds == { "dir", "file" }

Node(path, kind) == [path |-> path, kind |-> kind]
Paths(tree) == { n.path : n \in tree }

\* "dir", "file" or "absent".
KindOf(tree, path) ==
    IF Node(path, "dir") \in tree THEN "dir"
    ELSE IF Node(path, "file") \in tree THEN "file"
    ELSE "absent"

\* The trees one more entry makes of a tree: a new name in the working
\* directory or in one of the tree's directories.
Extensions(tree) ==
    LET parents == { <<>> } \cup { n.path : n \in { m \in tree : m.kind = "dir" } }
        free(par) == { x \in Names : Append(par, x) \notin Paths(tree) }
    IN  UNION { { tree \cup { Node(Append(par, nm), k) } : nm \in free(par), k \in Kinds } :
                par \in parents }

RECURSIVE TreesUpTo(_)
TreesUpTo(n) ==
    IF n = 0
    THEN { {} }
    ELSE LET smaller == TreesUpTo(n - 1)
         IN  smaller \cup
             UNION { Extensions(t) : t \in { x \in smaller : Cardinality(x) = n - 1 } }


IsPrefix(p, q) == Len(p) <= Len(q) /\ SubSeq(q, 1, Len(p)) = p

\* The children of a directory, as os.scandir lists them.
Children(tree, top) == { n \in tree : Len(n.path) = Len(top) + 1 /\ IsPrefix(top, n.path) }
Last(path) == path[Len(path)]

\* shutil.rmtree(path): the directory and everything below it;
\* os.remove(path): the single file.  Either raises on a missing path.
RmTree(tree, path) == { n \in tree : ~IsPrefix(path, n.path) }
Remove(tree, path) == tree \ { Node(path, "file") }

\* A relative one-component path string as the OS resolves it: the name, and
\* whether a trailing "/" requires it to be a directory.
PathName(str) == Split(str, "/")[1]
NeedsDir(str) == Len(Split(str, "/")) > 1
\* The entries of the working directory that a path string names (at most one).
Named(tree, str) == { c \in Children(tree, <<>>) : Chars(Last(c.path)) = PathName(str) }
\* os.path.exists and os.path.isdir.
PathExists(tree, str) ==
    \E c \in Named(tree, str) : NeedsDir(str) => c.kind = "dir"
PathIsDir(tree, str) == \E c \in Named(tree, str) : c.kind = "dir"

\* Variant: the isdir test dropped (sensitivity of C9).
EggInfoItemsAnyKind(tree) ==
    { Chars(Last(n.path)) : n \in { c \in Children(tree, <<>>) :
                                      EndsWith(Chars(Last(c.path)), S_egg_info) } }
\* The items of os.listdir(".") that the first loop appends.
EggInfoItems(tree) ==
    { Chars(Last(n.path)) : n \in { c \in Children(tree, <<>>) :
                                      /\ EndsWith(Chars(Last(c.path)), S_egg_info)
                                      /\ PathIsDir(tree, Chars(Last(c.path))) } }

\* The orders in which a listing may return a set of names.
Orders(S) ==
    { o \in [1..Cardinality(S) -> S] : \A i, j \in 1..Cardinality(S) : o[i] = o[j] => i = j }

\* One iteration of the second loop: a listed path that exists is removed
\* and reported.  st = [fs, reported, error].
RemoveOne(st, str) ==
    IF PathExists(st.fs, str)
    THEN LET path == (CHOOSE c \in Named(st.fs, str) : TRUE).path
         IN  [ fs |-> IF PathIsDir(st.fs, str)
                      THEN RmTree(st.fs, path)
                      ELSE Remove(st.fs, path),
               reported |-> st.reported \cup { path },
               error |-> st.error ]
    ELSE st

\* Variant: the loop stops after its first removal (sensitivity of C7).
RECURSIVE RemoveListedUntilFirst(_, _)
RemoveListedUntilFirst(st, list) ==
    IF Len(list) = 0 THEN st
    ELSE IF PathExists(st.fs, list[1]) THEN RemoveOne(st, list[1])
    ELSE RemoveListedUntilFirst(st, Tail(list))
\* The second loop over the whole list.
RECURSIVE RemoveListed(_, _)
RemoveListed(st, list) ==
    IF Len(list) = 0 THEN st
    ELSE RemoveListed(RemoveOne(st, list[1]), Tail(list))

\* Variant: the .pyc test applied to directories too (sensitivity of C10).
WalkBodyAnyPyc(st, root, dirs, files) ==
    LET caches == { Append(root, d) : d \in { x \in dirs : Chars(x) = S_pycache } }
        pycs == { Append(root, f) : f \in { x \in dirs \cup files : EndsWith(Chars(x), S_pyc) } }
    IN  [ fs |-> { n \in st.fs : /\ \A c \in caches \cup pycs : ~IsPrefix(c, n.path) },
          reported |-> st.reported \cup caches \cup pycs,
          error |-> st.error ]
\* The body of the walk's for loop for one listed directory: root, the names
\* of its directories and of its other entries as listed.  Removing a path
\* that is gone raises.
WalkBody(st, root, dirs, files) ==
    LET caches == { Append(root, d) : d \in { x \in dirs : Chars(x) = S_pycache } }
        pycs == { Append(root, f) : f \in { x \in files : EndsWith(Chars(x), S_pyc) } }
    IN  [ fs |-> { n \in st.fs : /\ \A c \in caches : ~IsPrefix(c, n.path)
                                 /\ ~(n.kind = "file" /\ n.path \in pycs) },
          reported |-> st.reported \cup caches \cup pycs,
          error |-> \/ st.error
                    \/ \E c \in caches : KindOf(st.fs, c) # "dir"
                    \/ \E f \in pycs : KindOf(st.fs, f) # "file" ]

\* Variant: a failed listing propagates (sensitivity of C8).
OnErrorRaisesAlways == TRUE
\* os.walk(".") is called without onerror: a directory that cannot be listed
\* (it is gone) is skipped silently.
OnErrorRaises == FALSE

StartClean ==
    /\ outcome = "idle"
    /\ run = "none"
    /\ run' = "first"
    /\ cmd' = "run_clean"
    /\ stack' = <<[fn |-> "run_clean", pc |-> "list"]>>
    /\ outcome' = "running"
    /\ UNCHANGED <<calls, exampleVars>>
    /\ UNCHANGED <<fs, dirs_to_remove, pending, vanished, reported, fsInit, fsMid>>

\* The caller runs run_clean again right after the first run returned.
StartCleanAgain ==
    /\ outcome = "returned"
    /\ run = "first"
    /\ run' = "second"
    /\ stack' = <<[fn |-> "run_clean", pc |-> "list"]>>
    /\ outcome' = "running"
    /\ fsMid' = fs
    /\ dirs_to_remove' = <<>>
    /\ vanished' = {}
    /\ reported' = {}
    /\ UNCHANGED <<cmd, calls, exampleVars, fs, pending, fsInit>>

\* dirs_to_remove and the os.listdir(".") loop that appends to it.
CleanList ==
    /\ At("run_clean", "list")
    /\ \E order \in Orders(EggInfoItems(fs)) : dirs_to_remove' = FixedPaths \o order
    /\ stack' = Goto("remove")
    /\ UNCHANGED <<cmd, calls, outcome, exampleVars>>
    /\ UNCHANGED <<fs, run, pending, vanished, reported, fsInit, fsMid>>

\* The loop over dirs_to_remove; os.walk(".") then starts at the top.
CleanRemoveListed ==
    /\ At("run_clean", "remove")
    /\ LET st == RemoveListed([fs |-> fs, reported |-> reported, error |-> FALSE],
                              dirs_to_remove)
       IN  /\ fs' = st.fs
           /\ reported' = st.reported
    /\ pending' = << <<>> >>
    /\ stack' = Goto("walk")
    /\ UNCHANGED <<cmd, calls, outcome, exampleVars>>
    /\ UNCHANGED <<run, dirs_to_remove, vanished, fsInit, fsMid>>

\* One directory of the walk: listed (or skipped when gone), handed to the
\* loop body, and its listed directories queued for descent in listing order,
\* whether or not the body removed them.
CleanWalkStep ==
    /\ At("run_clean", "walk")
    /\ Len(pending) > 0
    /\ LET top == pending[1]
       IN  IF top # <<>> /\ KindOf(fs, top) # "dir"
           THEN /\ vanished' = vanished \cup { top }
                /\ IF OnErrorRaises
                   THEN /\ stack' = <<>>
                        /\ outcome' = "raised"
                        /\ pending' = <<>>
                   ELSE /\ pending' = Tail(pending)
                        /\ UNCHANGED <<stack, outcome>>
                /\ UNCHANGED <<fs, reported>>
           ELSE LET dirs == { Last(n.path) : n \in { c \in Children(fs, top) : c.kind = "dir" } }
                    files == { Last(n.path) : n \in { c \in Children(fs, top) : c.kind = "file" } }
                    st == WalkBody([fs |-> fs, reported |-> reported, error |-> FALSE],
                                   top, dirs, files)
                IN  /\ fs' = st.fs
                    /\ reported' = st.reported
                    /\ IF st.error
                       THEN /\ stack' = <<>>
                            /\ outcome' = "raised"
                            /\ pending' = <<>>
                       ELSE /\ \E order \in Orders(dirs) :
                                  pending' = [i \in 1..Len(order) |-> Append(top, order[i])]
                                             \o Tail(pending)
                            /\ UNCHANGED <<stack, outcome>>
                    /\ UNCHANGED vanished
    /\ UNCHANGED <<cmd, calls, exampleVars>>
    /\ UNCHANGED <<run, dirs_to_remove, fsInit, fsMid>>

\* The walk is exhausted: "Clean complete" and return.
CleanDone ==
    /\ At("run_clean", "walk")
    /\ Len(pending) = 0
    /\ stack' = <<>>
    /\ outcome' = "returned"
    /\ UNCHANGED <<cmd, calls, exampleVars, cleanVars>>

\* The working directory holds any tree of at most MaxNodes entries.
InitClean ==
    \E base \in TreesUpTo(MaxNodes - 1) :
        \E tree \in { base } \cup Extensions(base) : Idle(tree)

NextClean ==
    \/ StartClean
    \/ StartCleanAgain
    \/ CleanList
    \/ CleanRemoveListed
    \/ CleanWalkStep
    \/ CleanDone

SpecClean == InitClean /\ [][NextClean]_vars

(***************************************************************************)
(* Properties of run_clean.  Name tests are stated here on the characters  *)
(* of a name, independently of the model's EndsWith.                       *)
(***************************************************************************)
HasSuffix(name, suffix) ==
    LET cs == Chars(name)
    IN  /\ Len(cs) >= Len(suffix)
        /\ \A k \in 1..Len(suffix) : cs[Len(cs) - Len(suffix) + k] = suffix[k]

IsCacheDir(n) == n.kind = "dir" /\ Chars(Last(n.path)) = S_pycache
IsPycFile(n) == n.kind = "file" /\ HasSuffix(Last(n.path), S_pyc)
IsTopLevel(n) == Len(n.path) = 1
IsEggInfo(n) == IsTopLevel(n) /\ HasSuffix(Last(n.path), S_egg_info)

CleanReturned == cmd = "run_clean" /\ outcome = "returned"

\* C7: a second run_clean right after a first one removes nothing, reports
\* nothing and raises nothing: the tree stays as the first run left it.
C7_CleanIdempotent ==
    run = "second" =>
        /\ fs = fsMid
        /\ reported = {}
        /\ outcome # "raised"

\* C7's case: the second run returned after a first run that removed a
\* __pycache__ directory three levels deep.
C7_Witness ==
    /\ run = "second"
    /\ outcome = "returned"
    /\ \E n \in fsInit : IsCacheDir(n) /\ Len(n.path) = 3 /\ n \notin fs

\* C8: run_clean never raises, and when it has returned no directory named
\* __pycache__ and no file ending in .pyc is left at any depth.
C8_NoCacheEntryLeft ==
    cmd = "run_clean" =>
        /\ outcome # "raised"
        /\ outcome = "returned" => \A n \in fs : ~IsCacheDir(n) /\ ~IsPycFile(n)

\* C8's case: the walk removed a __pycache__ directory holding a .pyc file or
\* another __pycache__, later failed to list it, skipped it, and returned.
C8_Witness ==
    /\ run = "first"
    /\ outcome = "returned"
    /\ \E v \in vanished :
          \E n \in fsInit : /\ Len(n.path) > Len(v)
                            /\ IsPrefix(v, n.path)
                            /\ (IsCacheDir(n) \/ IsPycFile(n))

\* C9 as claimed: once run_clean has returned, no entry of the working
\* directory whose name ends in .egg-info is left, file or directory.
C9_NoEggInfoEntryLeft ==
    CleanReturned => \A n \in fs : ~IsEggInfo(n)

\* C9 as amended: the removal list is the six fixed paths followed by the
\* working directory's directories whose name ends in .egg-info; once
\* run_clean has returned, each such directory is gone with all its
\* contents, and each regular file of the working directory whose name ends
\* in .egg-info is still there.
C9_EggInfoDirsRemoved ==
    /\ At("run_clean", "remove") =>
          /\ Len(dirs_to_remove) >= Len(FixedPaths)
          /\ SubSeq(dirs_to_remove, 1, Len(FixedPaths)) = FixedPaths
          /\ { dirs_to_remove[k] : k \in (Len(FixedPaths) + 1)..Len(dirs_to_remove) }
                = { Chars(Last(n.path)) : n \in { m \in fs : IsEggInfo(m) /\ m.kind = "dir" } }
    /\ CleanReturned =>
          \A n \in fsInit :
              /\ (IsEggInfo(n) /\ n.kind = "dir") =>
                    \A m \in fsInit : IsPrefix(n.path, m.path) => m \notin fs
              /\ (IsEggInfo(n) /\ n.kind = "file") => n \in fs

\* C9's case: a directory a.egg-info with an entry inside was removed.
C9_Witness ==
    /\ CleanReturned
    /\ \E n \in fsInit :
          /\ IsEggInfo(n)
          /\ n.kind = "dir"
          /\ \E m \in fsInit : Len(m.path) = 2 /\ IsPrefix(n.path, m.path)
          /\ n.path \in reported
          /\ n \notin fs

\* What run_clean may remove: an entry that is, or lies inside, a fixed
\* top-level path, a top-level directory ending in .egg-info or a directory
\* named __pycache__, or that is a file ending in .pyc.
FixedNames == { S_build, S_dist, S_pytest_cache, S_mypy_cache, S_htmlcov, S_coverage }
Removable(n) ==
    \/ IsPycFile(n)
    \/ \E k \in 1..Len(n.path) :
          LET anc == Node(SubSeq(n.path, 1, k), KindOf(fsInit, SubSeq(n.path, 1, k)))
          IN  \/ IsTopLevel(anc) /\ Chars(Last(anc.path)) \in FixedNames
              \/ IsEggInfo(anc) /\ anc.kind = "dir"
              \/ IsCacheDir(anc)

\* C10: run_clean creates nothing and removes only removable entries: every
\* other entry of the initial tree is still there, as it was.
C10_NothingElseRemoved ==
    /\ fs \subseteq fsInit
    /\ \A n \in fsInit : ~Removable(n) => n \in fs

\* C10's case: run_clean returned having removed something while a directory
\* ending in .pyc, a file named __pycache__ or a nested entry named build
\* stayed.
C10_Witness ==
    /\ CleanReturned
    /\ fs # fsInit
    /\ \E n \in fs :
          \/ n.kind = "dir" /\ HasSuffix(Last(n.path), S_pyc)
          \/ n.kind = "file" /\ Chars(Last(n.path)) = S_pycache
          \/ Len(n.path) > 1 /\ Chars(Last(n.path)) = S_build

====
